---- MODULE Spec2Model ----
(***************************************************************************)
(* The project store of Shiptech-PMS (zustand store over Firestore): the   *)
(* task tree of a project, its path resolver, its tree editors, the        *)
(* normalisation done before every write and the per-user aggregation.     *)
(*                                                                         *)
(* A JS object is a TLA+ record; an unset (undefined) property is a key    *)
(* that is not in the record's DOMAIN.  null is the string Null.  A        *)
(* PathItem {id} is modelled by its id.  A value that may be null (a       *)
(* fetched project, a resolved task) is a sequence of length 0 or 1.       *)
(***************************************************************************)
EXTENDS Integers, Sequences, FiniteSets, TLC

\* ------------------------------------------------------------- bounds
MaxNodes == 4
MaxDepth == 3
MaxNormalise == 1
MaxCalls == 2

\* -------------------------------------------------------------- values
Null == "<null>"

ProjOrder == <<"p1", "p2">>
ProjIds == {ProjOrder[i] : i \in 1..Len(ProjOrder)}

IdPool == {"a", "b", "c", "d"}

U1 == [id |-> "u1", fullName |-> "Una", email |-> "una@x"]
U2 == [id |-> "u2", fullName |-> "Udo", email |-> "udo@x"]

MsgStore == "store unavailable"
MsgNoDoc == "No document to update"
MsgNoProject == "Project not found"
MsgNoTask == "Task not found"
MsgNoUser == "No user logged in"

\* --------------------------------------------------------- JS helpers
Has(r, k) == k \in DOMAIN r

\* {...r, k: v}
SetField(r, k, v) == (k :> v) @@ r

\* {...a, ...b}
Spread(a, b) == b @@ a

\* r.k || d for a string-valued property (undefined, null and '' are falsy)
OrStr(r, k, d) == IF Has(r, k) /\ r[k] # "" /\ r[k] # Null THEN r[k] ELSE d

\* r.k || d for a number-valued property (undefined and 0 are falsy)
OrNum(r, k, d) == IF Has(r, k) /\ r[k] # 0 THEN r[k] ELSE d

\* task.children || []
Children(t) == IF Has(t, "children") THEN t.children ELSE <<>>

\* items.find(item => item.id === id): the first match, as 0 or 1 elements
RECURSIVE Find(_, _)
Find(items, id) ==
  IF items = <<>> THEN <<>>
  ELSE IF Head(items).id = id THEN <<Head(items)>>
  ELSE Find(Tail(items), id)

\* ------------------------------------------------- updateProject.cleanTasks
CleanUser(user) == [id |-> user.id, fullName |-> user.fullName, email |-> user.email]

RECURSIVE CleanUsers(_)
CleanUsers(users) ==
  IF users = <<>> THEN <<>> ELSE <<CleanUser(Head(users))>> \o CleanUsers(Tail(users))

\* task.assignedTo?.map(user => ({...})) || []
CleanAssigned(task) == IF Has(task, "assignedTo") THEN CleanUsers(task.assignedTo) ELSE <<>>

RECURSIVE cleanTasks(_)
\* CleanTask with children: task.children || [] for the recursive call
CleanTaskShallow(task) ==
  [id |-> task.id,
   name |-> OrStr(task, "name", ""),
   description |-> OrStr(task, "description", ""),
   hours |-> OrNum(task, "hours", 0),
   costPerHour |-> OrNum(task, "costPerHour", 0),
   assignedTo |-> CleanAssigned(task),
   deadline |-> OrStr(task, "deadline", Null),
   completed |-> (Has(task, "completed") /\ task.completed),
   children |-> Children(task)]

CleanTask(task) ==
  [id |-> task.id,
   name |-> OrStr(task, "name", ""),
   description |-> OrStr(task, "description", ""),
   hours |-> OrNum(task, "hours", 0),
   costPerHour |-> OrNum(task, "costPerHour", 0),
   assignedTo |-> CleanAssigned(task),
   deadline |-> OrStr(task, "deadline", Null),
   completed |-> (Has(task, "completed") /\ task.completed),
   children |-> IF Has(task, "children") THEN cleanTasks(task.children) ELSE <<>>]

cleanTasks(tasks) ==
  IF tasks = <<>> THEN <<>> ELSE <<CleanTask(Head(tasks))>> \o cleanTasks(Tail(tasks))

\* ------------------------------------------------- getTaskByPath (the walk)
RECURSIVE WalkSkipsMiss(_, _, _)
\* Walk without "if (!found) return null": a missed segment is skipped
WalkSkipsMiss(items, path, current) ==
  IF path = <<>> THEN current
  ELSE IF Find(items, Head(path)) = <<>> THEN WalkSkipsMiss(items, Tail(path), current)
  ELSE WalkSkipsMiss(Children(Find(items, Head(path))[1]), Tail(path), Find(items, Head(path)))

RECURSIVE Walk(_, _, _)
Walk(items, path, current) ==
  IF path = <<>> THEN current
  ELSE LET found == Find(items, Head(path))
       IN IF found = <<>> THEN <<>>
          ELSE Walk(Children(found[1]), Tail(path), found)

\* let current = null; let items = project.tasks; for (const pathItem of path) ...
ResolvePath(tasks, path) == Walk(tasks, path, <<>>)

\* ------------------------------------------------------- addTask helpers
NewTask(taskData, newId) ==
  Spread(taskData,
         [id |-> newId,
          name |-> OrStr(taskData, "name", ""),
          description |-> OrStr(taskData, "description", ""),
          completed |-> FALSE,
          children |-> <<>>])

RECURSIVE updateNestedTasks(_, _, _), AddUnder(_, _, _)
\* updateNestedTasks with [newTask, ...tasks] for [...tasks, newTask]
updateNestedTasksUnshift(tasks, currentPath, newTask) ==
  IF currentPath = <<>> THEN <<newTask>> \o tasks
  ELSE AddUnder(tasks, currentPath, newTask)

\* tasks.map(task => task.id === currentPath[0].id ? {...task, children: ...} : task)
AddUnder(tasks, currentPath, newTask) ==
  IF tasks = <<>> THEN <<>>
  ELSE <<IF Head(tasks).id = Head(currentPath)
           THEN SetField(Head(tasks), "children",
                         updateNestedTasks(Children(Head(tasks)), Tail(currentPath), newTask))
           ELSE Head(tasks)>>
       \o AddUnder(Tail(tasks), currentPath, newTask)

updateNestedTasks(tasks, currentPath, newTask) ==
  IF currentPath = <<>> THEN Append(tasks, newTask)
  ELSE AddUnder(tasks, currentPath, newTask)

AddedTasks(tasks, path, newTask) ==
  IF Len(path) = 0 THEN Append(tasks, newTask)
  ELSE updateNestedTasks(tasks, path, newTask)

\* ---------------------------------------------------- updateTask helpers
\* k: data.k || task.k, on top of the spread m
OrField(m, data, task, k) ==
  IF Has(data, k) /\ data[k] # "" /\ data[k] # Null THEN SetField(m, k, data[k])
  ELSE IF Has(task, k) THEN SetField(m, k, task[k])
  ELSE [x \in DOMAIN m \ {k} |-> m[x]]  \* k: undefined

\* PatchedTask without the spread of task: { id, ...data, name, description, children }
PatchedTaskDataOnly(task, data) ==
  SetField(OrField(OrField(Spread([id |-> task.id], data), data, task, "name"),
                   data, task, "description"),
           "children", Children(task))

PatchedTask(task, data) ==
  SetField(OrField(OrField(Spread(task, data), data, task, "name"),
                   data, task, "description"),
           "children", Children(task))

RECURSIVE updateNestedTask(_, _, _)
updateNestedTask(tasks, taskId, data) ==
  IF tasks = <<>> THEN <<>>
  ELSE <<IF Head(tasks).id = taskId THEN PatchedTask(Head(tasks), data)
         ELSE IF Has(Head(tasks), "children") /\ Len(Head(tasks).children) > 0
           THEN SetField(Head(tasks), "children",
                         updateNestedTask(Head(tasks).children, taskId, data))
         ELSE Head(tasks)>>
       \o updateNestedTask(Tail(tasks), taskId, data)

\* ---------------------------------------------------- deleteTask helpers
\* The filter callback assigns task.children on the element it was handed:
\* MutatedByDelete is the input array's elements after the callback ran on
\* each, deleteNestedTask the array the filter returns.
RECURSIVE deleteNestedTask(_, _), MutatedByDelete(_, _)
\* MutatedTask without the descent into task.children
MutatedTaskShallow(task, taskId) == task

\* deleteNestedTask with the filter's test inverted
deleteNestedTaskKeeps(tasks, taskId) == SelectSeq(tasks, LAMBDA t : t.id = taskId)

MutatedTask(task, taskId) ==
  IF task.id = taskId THEN task
  ELSE IF Has(task, "children") /\ Len(task.children) > 0
    THEN [task EXCEPT !.children = deleteNestedTask(task.children, taskId)]
  ELSE task

MutatedByDelete(tasks, taskId) ==
  IF tasks = <<>> THEN <<>>
  ELSE <<MutatedTask(Head(tasks), taskId)>> \o MutatedByDelete(Tail(tasks), taskId)

deleteNestedTask(tasks, taskId) ==
  SelectSeq(MutatedByDelete(tasks, taskId), LAMBDA t : t.id # taskId)

\* ------------------------------------------------ fetchUserTasks helpers
IsAssigned(task, uid) ==
  Has(task, "assignedTo") /\ \E i \in 1..Len(task.assignedTo) : task.assignedTo[i].id = uid

RECURSIVE findUserTasks(_, _, _), FindFold(_, _, _, _, _)
\* tasks.reduce((acc, task) => ..., []) from element i on
\* FindFold with the children's tasks put before the task itself
FindFoldChildrenFirst(tasks, i, acc, projectId, uid) ==
  IF i > Len(tasks) THEN acc
  ELSE LET task == tasks[i]
           childTasks == IF Has(task, "children")
                           THEN findUserTasks(task.children, projectId, uid) ELSE <<>>
           pushed == IF IsAssigned(task, uid)
                       THEN <<SetField(task, "projectId", projectId)>> ELSE <<>>
       IN FindFold(tasks, i + 1, acc \o childTasks \o pushed, projectId, uid)

FindFold(tasks, i, acc, projectId, uid) ==
  IF i > Len(tasks) THEN acc
  ELSE LET task == tasks[i]
           childTasks == IF Has(task, "children")
                           THEN findUserTasks(task.children, projectId, uid) ELSE <<>>
           pushed == IF IsAssigned(task, uid)
                       THEN Append(acc, SetField(task, "projectId", projectId)) ELSE acc
       IN FindFold(tasks, i + 1, pushed \o childTasks, projectId, uid)

findUserTasks(tasks, projectId, uid) == FindFold(tasks, 1, <<>>, projectId, uid)

RECURSIVE ProjectsFold(_, _, _, _)
\* projects.reduce((acc, project) => [...acc, ...findUserTasks(project.tasks, project.id)], [])
ProjectsFold(projects, i, acc, uid) ==
  IF i > Len(projects) THEN acc
  ELSE ProjectsFold(projects, i + 1,
                    acc \o findUserTasks(projects[i].tasks, projects[i].id, uid), uid)

\* ------------------------------------------------------------ the store
\* S is the zustand state {projects, userTasks, loading, error}; D is the
\* Firestore collection 'projects', a function from the ids of the documents
\* that exist to [name, tasks]; ok says which store calls of the handler
\* succeed (ok.read: getDoc, ok.list: getDocs, ok.write: addDoc / updateDoc /
\* deleteDoc).  A handler is an operator from (S, D, arguments) to its result:
\* the state and collection it leaves, whether its promise resolves ("ok") or
\* rejects ("rejected"), what it returns, and the number of writes that landed.

Begin(S) == [S EXCEPT !.loading = TRUE, !.error = Null]

SetErr(S, msg) == [S EXCEPT !.error = msg, !.loading = FALSE]

Result(S, D, out) ==
  [S |-> S, D |-> D, out |-> out, msg |-> Null, ret |-> <<>>, writes |-> 0,
   fetched |-> <<>>, inputAfter |-> <<>>]

\* { ...doc.data(), id: doc.id, tasks: doc.data().tasks || [] }
ProjectOf(D, id) ==
  [id |-> id, name |-> D[id].name,
   tasks |-> IF Has(D[id], "tasks") THEN D[id].tasks ELSE <<>>]

\* getDocs(collection(db, 'projects')).docs, in the store's order
RECURSIVE DocsOf(_, _)
DocsOf(D, ids) ==
  IF ids = <<>> THEN <<>> ELSE <<ProjectOf(D, Head(ids))>> \o DocsOf(D, Tail(ids))

ListDocs(D) == DocsOf(D, SelectSeq(ProjOrder, LAMBDA p : p \in DOMAIN D))

\* fetchProjects with the cache emptied when getDocs rejects
fetchProjectsClears(S, D, ok) ==
  IF ok.list
    THEN Result([Begin(S) EXCEPT !.projects = ListDocs(D), !.loading = FALSE], D, "ok")
    ELSE Result([SetErr(Begin(S), MsgStore) EXCEPT !.projects = <<>>], D, "ok")

fetchProjects(S, D, ok) ==
  IF ok.list
    THEN Result([Begin(S) EXCEPT !.projects = ListDocs(D), !.loading = FALSE], D, "ok")
    ELSE Result(SetErr(Begin(S), MsgStore), D, "ok")

fetchProject(S, D, id, ok) ==
  IF ~ok.read THEN Result(SetErr(Begin(S), MsgStore), D, "ok")
  ELSE IF id \in DOMAIN D
    THEN [Result([Begin(S) EXCEPT !.loading = FALSE], D, "ok")
            EXCEPT !.ret = <<ProjectOf(D, id)>>]
  ELSE Result([Begin(S) EXCEPT !.loading = FALSE], D, "ok")

createProject(S, D, projectData, docId, ok) ==
  IF ~ok.write
    THEN [Result(SetErr(Begin(S), MsgStore), D, "rejected") EXCEPT !.msg = MsgStore]
    ELSE LET newProject == SetField(projectData, "tasks", <<>>)
             projectWithId == SetField(newProject, "id", docId)
         IN [Result([Begin(S) EXCEPT !.projects = Append(S.projects, projectWithId),
                                     !.loading = FALSE],
                    [x \in DOMAIN D \cup {docId} |-> IF x = docId THEN newProject ELSE D[x]],
                    "ok")
               EXCEPT !.writes = 1]

RECURSIVE UpdatedProjects(_, _, _)
\* get().projects.map(project => project.id === id ? {...project, ...clean, id} : project)
UpdatedProjects(cached, id, cleanProjectData) ==
  IF cached = <<>> THEN <<>>
  ELSE <<IF Head(cached).id = id
           THEN SetField(Spread(Head(cached), cleanProjectData), "id", id)
           ELSE Head(cached)>>
       \o UpdatedProjects(Tail(cached), id, cleanProjectData)

CleanProjectData(projectData) ==
  [name |-> OrStr(projectData, "name", ""),
   tasks |-> cleanTasks(IF Has(projectData, "tasks") THEN projectData.tasks ELSE <<>>)]

\* updateDoc rejects when the write fails or the document does not exist
UpdateDocFailure(D, id, ok) ==
  IF ~ok.write THEN MsgStore ELSE IF id \notin DOMAIN D THEN MsgNoDoc ELSE Null

Written(S, D, id, cleanProjectData) ==
  [Result([Begin(S) EXCEPT !.projects = UpdatedProjects(S.projects, id, cleanProjectData),
                           !.loading = FALSE],
          [D EXCEPT ![id] = Spread(D[id], cleanProjectData)], "ok")
     EXCEPT !.writes = 1]

updateProject(S, D, id, projectData, ok) ==
  IF UpdateDocFailure(D, id, ok) # Null
    THEN [Result(SetErr(Begin(S), UpdateDocFailure(D, id, ok)), D, "rejected")
            EXCEPT !.msg = UpdateDocFailure(D, id, ok)]
    ELSE Written(S, D, id, CleanProjectData(projectData))

deleteProject(S, D, id, ok) ==
  IF ~ok.write
    THEN [Result(SetErr(Begin(S), MsgStore), D, "rejected") EXCEPT !.msg = MsgStore]
    ELSE [Result([Begin(S) EXCEPT
                    !.projects = SelectSeq(S.projects, LAMBDA project : project.id # id),
                    !.loading = FALSE],
                 [x \in DOMAIN D \ {id} |-> D[x]], "ok")
            EXCEPT !.writes = 1]

\* f: what fetchProject left and returned
Resolved(f, path) ==
  IF f.ret = <<>> THEN f ELSE [f EXCEPT !.ret = ResolvePath(f.ret[1].tasks, path)]

getTaskByPath(S, D, projectId, path, ok) ==
  Resolved(fetchProject(S, D, projectId, ok), path)

fetchUserTasks(S, D, currentUser, ok) ==
  IF currentUser = Null THEN Result(SetErr(Begin(S), MsgNoUser), D, "ok")
  ELSE IF ~ok.list THEN Result(SetErr(Begin(S), MsgStore), D, "ok")
  ELSE Result([Begin(S) EXCEPT
                 !.userTasks = ProjectsFold(ListDocs(D), 1, <<>>, currentUser),
                 !.loading = FALSE], D, "ok")

\* The catch block of addTask / updateTask / deleteTask
Caught(S, D, msg) == [Result(SetErr(S, msg), D, "rejected") EXCEPT !.msg = msg]

\* Settled with an error left by the refresh thrown on to the catch block
SettledRethrows(u, refreshed, fetched, inputAfter) ==
  IF u.out = "rejected" \/ refreshed.error # Null
    THEN [u EXCEPT !.S = SetErr(refreshed, IF u.out = "rejected" THEN u.msg ELSE refreshed.error),
                   !.out = "rejected",
                   !.msg = IF u.out = "rejected" THEN u.msg ELSE refreshed.error,
                   !.fetched = fetched, !.inputAfter = inputAfter]
    ELSE [u EXCEPT !.S = [refreshed EXCEPT !.loading = FALSE],
                   !.fetched = fetched, !.inputAfter = inputAfter]

\* After await get().updateProject(...): u is what updateProject left, refreshed
\* the state after the handler's tail; the handler ends in its catch block or
\* in set({ loading: false })
Settled(u, refreshed, fetched, inputAfter) ==
  IF u.out = "rejected"
    THEN [Caught(u.S, u.D, u.msg) EXCEPT !.fetched = fetched, !.inputAfter = inputAfter]
    ELSE [u EXCEPT !.S = [refreshed EXCEPT !.loading = FALSE],
                   !.fetched = fetched, !.inputAfter = inputAfter]

\* await get().updateProject(projectId, { ...project, tasks: updatedTasks })
Persist(S, D, project, updatedTasks, ok) ==
  updateProject(S, D, project.id, [project EXCEPT !.tasks = updatedTasks], ok)

AddTaskPersisted(u, fetched) == Settled(u, u.S, fetched, fetched)

AddTaskFetched(f, D, path, newTask, ok) ==
  IF f.ret = <<>> THEN Caught(f.S, D, MsgNoProject)
  ELSE AddTaskPersisted(Persist(f.S, D, f.ret[1],
                                AddedTasks(f.ret[1].tasks, path, newTask), ok),
                        f.ret[1].tasks)

addTask(S, D, projectId, path, taskData, newId, ok) ==
  AddTaskFetched(fetchProject(Begin(S), D, projectId, ok), D, path,
                 NewTask(taskData, newId), ok)

\* if (data.completed !== undefined || data.assignedTo !== undefined) await fetchUserTasks()
UpdateTaskPersisted(u, data, currentUser, ok, fetched) ==
  Settled(u,
          IF u.out = "ok" /\ (Has(data, "completed") \/ Has(data, "assignedTo"))
            THEN fetchUserTasks(u.S, u.D, currentUser, ok).S ELSE u.S,
          fetched, fetched)

UpdateTaskFetched(f, D, taskId, data, currentUser, ok) ==
  IF f.ret = <<>> THEN Caught(f.S, D, MsgNoProject)
  ELSE UpdateTaskPersisted(Persist(f.S, D, f.ret[1],
                                   updateNestedTask(f.ret[1].tasks, taskId, data), ok),
                           data, currentUser, ok, f.ret[1].tasks)

updateTask(S, D, projectId, path, taskId, data, currentUser, ok) ==
  UpdateTaskFetched(fetchProject(Begin(S), D, projectId, ok), D, taskId, data,
                    currentUser, ok)

DeleteTaskPersisted(u, currentUser, ok, fetched, mutated) ==
  Settled(u,
          IF u.out = "ok" THEN fetchUserTasks(u.S, u.D, currentUser, ok).S ELSE u.S,
          fetched, mutated)

\* mutated: project.tasks after deleteNestedTask ran on it
DeleteTaskMutated(f, D, taskId, mutated, currentUser, ok) ==
  DeleteTaskPersisted(Persist(f.S, D, f.ret[1],
                              SelectSeq(mutated, LAMBDA t : t.id # taskId), ok),
                      currentUser, ok, f.ret[1].tasks, mutated)

DeleteTaskFetched(f, D, taskId, currentUser, ok) ==
  IF f.ret = <<>> THEN Caught(f.S, D, MsgNoProject)
  ELSE DeleteTaskMutated(f, D, taskId, MutatedByDelete(f.ret[1].tasks, taskId),
                         currentUser, ok)

deleteTask(S, D, projectId, path, taskId, currentUser, ok) ==
  DeleteTaskFetched(fetchProject(Begin(S), D, projectId, ok), D, taskId, currentUser, ok)

ToggleResolved(g, D, projectId, path, currentUser, ok) ==
  IF g.ret = <<>> THEN [Result(g.S, D, "rejected") EXCEPT !.msg = MsgNoTask]
  ELSE updateTask(g.S, D, projectId, SubSeq(path, 1, Len(path) - 1), path[Len(path)],
                  [completed |-> ~g.ret[1].completed], currentUser, ok)

toggleTaskCompletion(S, D, projectId, path, currentUser, ok) ==
  ToggleResolved(getTaskByPath(S, D, projectId, path, ok), D, projectId, path,
                 currentUser, ok)

\* ------------------------------------------------------------- inputs
OkAll == [read |-> TRUE, list |-> TRUE, write |-> TRUE]

\* The store calls of a handler all succeed
Reliable == {OkAll}

\* getDoc rejects, getDocs rejects, the write (addDoc, updateDoc, deleteDoc) rejects
NoRead == [OkAll EXCEPT !.read = FALSE]
NoList == [OkAll EXCEPT !.list = FALSE]
NoWrite == [OkAll EXCEPT !.write = FALSE]

\* At most one kind of store call fails during a call
Faulty == {OkAll, NoRead, NoList, NoWrite}

\* addTask's taskData: Omit<Task, 'id' | 'children' | 'completed'>
TaskInputs ==
  {[name |-> "X", description |-> "dx"],
   [name |-> "Y", description |-> "", hours |-> 5, assignedTo |-> <<U1>>, deadline |-> "d1"],
   [name |-> "", description |-> "", deadline |-> "", projectId |-> "p9"]}

\* updateTask's data: Partial<Task>
PatchInputs ==
  {[completed |-> TRUE], [completed |-> FALSE], [name |-> "Z"],
   [name |-> "", assignedTo |-> <<U2>>], [id |-> "a"]}

\* Raw trees (fields unset), as a caller hands them to updateProject
RawChain ==
  <<[id |-> "a", name |-> "A", completed |-> TRUE, assignedTo |-> <<U1>>,
     children |-> <<[id |-> "b", name |-> "B", completed |-> FALSE,
                     children |-> <<[id |-> "c", name |-> "C", hours |-> 5,
                                     assignedTo |-> <<U2, U1>>, deadline |-> "d1"]>>]>>]>>

RawDup ==
  <<[id |-> "a", name |-> "A", completed |-> FALSE,
     children |-> <<[id |-> "d", name |-> "D1", assignedTo |-> <<U1>>]>>],
    [id |-> "b", name |-> "B", completed |-> FALSE,
     children |-> <<[id |-> "d", name |-> "D2", completed |-> TRUE]>>]>>

RawWide ==
  <<[id |-> "a", name |-> "A", description |-> "da",
     children |-> <<[id |-> "b", name |-> "B", assignedTo |-> <<U1>>, completed |-> TRUE]>>],
    [id |-> "c", name |-> "C", assignedTo |-> <<U1, U2>>, deadline |-> "d2"]>>

RawOne == <<[id |-> "d", name |-> "D", assignedTo |-> <<U1>>]>>

ProjectInputs ==
  {[name |-> "P", tasks |-> RawChain], [name |-> "P", tasks |-> RawDup], <<>>}

\* A stored document: what createProject and updateProject leave in the collection
Doc(rawTasks) == [name |-> "P", tasks |-> cleanTasks(rawTasks)]

\* The collections the application starts on
SeedDbs ==
  {<<>>,
   [p \in {"p1"} |-> Doc(<<>>)],
   [p \in {"p1"} |-> Doc(RawChain)],
   [p \in {"p1"} |-> Doc(RawWide)],
   [p \in {"p2"} |-> Doc(RawDup)],
   [p \in {"p1", "p2"} |-> IF p = "p1" THEN Doc(RawOne) ELSE Doc(RawWide)]}

RECURSIVE NodeCount(_), IdsIn(_)
NodeCount(tasks) ==
  IF tasks = <<>> THEN 0
  ELSE 1 + NodeCount(Children(Head(tasks))) + NodeCount(Tail(tasks))

IdsIn(tasks) ==
  IF tasks = <<>> THEN {}
  ELSE {Head(tasks).id} \cup IdsIn(Children(Head(tasks))) \cup IdsIn(Tail(tasks))

\* crypto.randomUUID(): an id no node of any stored tree has
FreshIds(D) == IdPool \ UNION {IdsIn(D[p].tasks) : p \in DOMAIN D}

RECURSIVE PathsIn(_, _)
\* The paths of at most n segments that lead to a node of the tree
PathsIn(tasks, n) ==
  IF n = 0 THEN {}
  ELSE UNION {{<<tasks[i].id>>} \cup
              {<<tasks[i].id>> \o q : q \in PathsIn(Children(tasks[i]), n - 1)} :
              i \in 1..Len(tasks)}

\* The paths that resolve in a project's tree, and the empty path
ParentPaths(D, projectId) ==
  IF projectId \notin DOMAIN D THEN {<<>>}
  ELSE {<<>>} \cup PathsIn(D[projectId].tasks, MaxDepth)

\* The paths a caller passes: every path whose proper prefix resolves
PathInputs(D, projectId) ==
  IF projectId \notin DOMAIN D THEN {<<>>, <<"a">>}
  ELSE {<<>>} \cup {Append(q, x) : q \in {<<>>} \cup PathsIn(D[projectId].tasks, MaxDepth - 1),
                                   x \in IdPool}

\* -------------------------------------------------------------- state
\* inflight: the calls that overlap, each with the store call it waits for
VARIABLES projects, userTasks, loading, error, db, currentUser, last, calls, inflight

vars == <<projects, userTasks, loading, error, db, currentUser, last, calls, inflight>>

State == [projects |-> projects, userTasks |-> userTasks, loading |-> loading, error |-> error]

NoCall ==
  [op |-> "none", projectId |-> "", path |-> <<>>, taskId |-> "", data |-> <<>>,
   newId |-> "", before |-> <<>>, out |-> "ok", msg |-> Null, ret |-> <<>>,
   writes |-> 0, fetched |-> <<>>, inputAfter |-> <<>>, ok |-> OkAll,
   prior |-> [projects |-> <<>>, userTasks |-> <<>>, loading |-> FALSE, error |-> Null]]

\* The call that just ended: its arguments, the collection and the state
\* before it, its result
Call(op, projectId, path, taskId, data, newId, r) ==
  [op |-> op, projectId |-> projectId, path |-> path, taskId |-> taskId, data |-> data,
   newId |-> newId, before |-> db, out |-> r.out, msg |-> r.msg, ret |-> r.ret,
   writes |-> r.writes, fetched |-> r.fetched, inputAfter |-> r.inputAfter,
   ok |-> OkAll, prior |-> State]

\* ok: which of the call's store calls succeeded
Called(ok, call) == [call EXCEPT !.ok = ok]

\* A caller may start a call (the model follows MaxCalls calls)
MayCall == calls < MaxCalls

Commit(r, call) ==
  /\ calls' = calls + 1
  /\ projects' = r.S.projects
  /\ userTasks' = r.S.userTasks
  /\ loading' = r.S.loading
  /\ error' = r.S.error
  /\ db' = r.D
  /\ last' = call
  /\ UNCHANGED <<currentUser, inflight>>

Init ==
  /\ projects = <<>>
  /\ userTasks = <<>>
  /\ loading = FALSE
  /\ error = Null
  /\ db \in SeedDbs
  /\ currentUser \in {Null, "u1"}
  /\ last = NoCall
  /\ calls = 0
  /\ inflight = <<>>

FetchProjects(oks) ==
  /\ MayCall
  /\ \E ok \in oks :
       \E r \in {fetchProjects(State, db, ok)} :
         Commit(r, Called(ok, Call("fetchProjects", "", <<>>, "", <<>>, "", r)))

FetchProject(oks) ==
  /\ MayCall
  /\ \E id \in ProjIds, ok \in oks :
       \E r \in {fetchProject(State, db, id, ok)} :
         Commit(r, Called(ok, Call("fetchProject", id, <<>>, "", <<>>, "", r)))

CreateProject(oks) ==
  /\ MayCall
  /\ \E docId \in ProjIds \ DOMAIN db, ok \in oks :
       \E r \in {createProject(State, db, [name |-> "P"], docId, ok)} :
         Commit(r, Called(ok, Call("createProject", docId, <<>>, "", <<>>, "", r)))

UpdateProject(oks) ==
  /\ MayCall
  /\ \E id \in ProjIds, projectData \in ProjectInputs, ok \in oks :
       \E r \in {updateProject(State, db, id, projectData, ok)} :
         Commit(r, Called(ok, Call("updateProject", id, <<>>, "", projectData, "", r)))

DeleteProject(oks) ==
  /\ MayCall
  /\ \E id \in ProjIds, ok \in oks :
       \E r \in {deleteProject(State, db, id, ok)} :
         Commit(r, Called(ok, Call("deleteProject", id, <<>>, "", <<>>, "", r)))

GetTaskByPath(oks) ==
  /\ MayCall
  /\ \E projectId \in ProjIds :
       \E path \in PathInputs(db, projectId), ok \in oks :
         \E r \in {getTaskByPath(State, db, projectId, path, ok)} :
           Commit(r, Called(ok, Call("getTaskByPath", projectId, path, "", <<>>, "", r)))

AddTask(oks) ==
  /\ MayCall
  /\ \E projectId \in ProjIds :
       /\ projectId \in DOMAIN db => NodeCount(db[projectId].tasks) < MaxNodes
       /\ \E path \in PathInputs(db, projectId), newId \in FreshIds(db) :
            \E taskData \in TaskInputs, ok \in oks :
              \E r \in {addTask(State, db, projectId, path, taskData, newId, ok)} :
                Commit(r, Called(ok, Call("addTask", projectId, path, "", taskData, newId, r)))

UpdateTask(oks) ==
  /\ MayCall
  /\ \E projectId \in ProjIds :
       \E path \in ParentPaths(db, projectId) :
         \E taskId \in IdPool, data \in PatchInputs, ok \in oks :
           \E r \in {updateTask(State, db, projectId, path, taskId, data, currentUser, ok)} :
             Commit(r, Called(ok, Call("updateTask", projectId, path, taskId, data, "", r)))

DeleteTask(oks) ==
  /\ MayCall
  /\ \E projectId \in ProjIds :
       \E path \in ParentPaths(db, projectId) :
         \E taskId \in IdPool, ok \in oks :
           \E r \in {deleteTask(State, db, projectId, path, taskId, currentUser, ok)} :
             Commit(r, Called(ok, Call("deleteTask", projectId, path, taskId, <<>>, "", r)))

ToggleTaskCompletion(oks) ==
  /\ MayCall
  /\ \E projectId \in ProjIds :
       \E path \in PathInputs(db, projectId), ok \in oks :
         \E r \in {toggleTaskCompletion(State, db, projectId, path, currentUser, ok)} :
           Commit(r, Called(ok, Call("toggleTaskCompletion", projectId, path, "", <<>>, "", r)))

FetchUserTasks(oks) ==
  /\ MayCall
  /\ \E ok \in oks :
       \E r \in {fetchUserTasks(State, db, currentUser, ok)} :
         Commit(r, Called(ok, Call("fetchUserTasks", "", <<>>, "", <<>>, "", r)))

\* The store with every store call succeeding
Next ==
  \/ FetchProjects(Reliable)
  \/ FetchProject(Reliable)
  \/ CreateProject(Reliable)
  \/ UpdateProject(Reliable)
  \/ DeleteProject(Reliable)
  \/ GetTaskByPath(Reliable)
  \/ AddTask(Reliable)
  \/ UpdateTask(Reliable)
  \/ DeleteTask(Reliable)
  \/ ToggleTaskCompletion(Reliable)
  \/ FetchUserTasks(Reliable)

Spec == Init /\ [][Next]_vars

\* ------------------------------------------- positions (for the properties)
\* A position is the sequence of 1-based indices that leads from the root list
\* to a node; the properties below are stated on positions, not through the
\* operators that model the code.
RECURSIVE Positions(_), NodeAt(_, _)
Positions(tasks) ==
  UNION {{<<i>>} \cup {<<i>> \o q : q \in Positions(tasks[i].children)} :
         i \in 1..Len(tasks)}

NodeAt(tasks, pos) ==
  IF Len(pos) = 1 THEN tasks[pos[1]]
  ELSE NodeAt(tasks[pos[1]].children, Tail(pos))

\* The list a position's last index points into
ListAt(tasks, pos) ==
  IF Len(pos) = 1 THEN tasks ELSE NodeAt(tasks, SubSeq(pos, 1, Len(pos) - 1)).children

UniqueIds(tasks) == \A p, q \in Positions(tasks) : NodeAt(tasks, p).id = NodeAt(tasks, q).id => p = q

IsPrefix(p, q) == Len(p) <= Len(q) /\ SubSeq(q, 1, Len(p)) = p

\* pos follows path: at every level the node is the first of its list with the segment's id
Follows(tasks, pos, path) ==
  /\ Len(pos) = Len(path)
  /\ \A k \in 1..Len(pos) :
       /\ ListAt(tasks, SubSeq(pos, 1, k))[pos[k]].id = path[k]
       /\ \A j \in 1..(pos[k] - 1) : ListAt(tasks, SubSeq(pos, 1, k))[j].id # path[k]

\* The positions path leads to: none or one
PathPos(tasks, path) == {pos \in Positions(tasks) : Follows(tasks, pos, path)}

\* The tree of the call's project before and after the call
Before == last.before[last.projectId].tasks
After == db[last.projectId].tasks
OnProject == last.projectId \in DOMAIN last.before
Edited(op) == last.op = op /\ last.out = "ok" /\ OnProject

\* ------------------------------------------------------------------ C1
\* C1: getTaskByPath never rejects; it returns null for a missing project and
\* for the empty path, the node reached by matching one segment per level
\* when every segment matches, and null as soon as one segment matches no node.
C1_GetTaskByPath ==
  last.op = "getTaskByPath" =>
    /\ last.out = "ok"
    /\ (~OnProject \/ last.path = <<>>) => last.ret = <<>>
    /\ (OnProject /\ last.path # <<>>) =>
         /\ PathPos(Before, last.path) = {} => last.ret = <<>>
         /\ \A pos \in PathPos(Before, last.path) : last.ret = <<NodeAt(Before, pos)>>

\* A path of three segments resolved to a node three levels deep
C1_Witness ==
  /\ last.op = "getTaskByPath"
  /\ Len(last.path) = 3
  /\ last.ret # <<>>
  /\ last.ret[1].id = last.path[3]

\* ------------------------------------------------------------------ C2
\* addTask on a tree of unique ids with a path that is empty or resolves
C2_Case ==
  /\ Edited("addTask")
  /\ UniqueIds(Before)
  /\ last.path = <<>> \/ PathPos(Before, last.path) # {}

\* The position of the node the path names (<<>> for the root list)
C2_ParentPos == IF last.path = <<>> THEN <<>> ELSE CHOOSE pos \in PathPos(Before, last.path) : TRUE

C2_ParentList == IF last.path = <<>> THEN Before ELSE NodeAt(Before, C2_ParentPos).children

C2_NewPos == Append(C2_ParentPos, Len(C2_ParentList) + 1)

\* The new node is the last element of the list the path names, not completed,
\* childless, and P + [newId] resolves to it; every node off the path is as it
\* was, and a node on the path differs in its children only
C2_Inserted ==
  /\ Positions(After) = Positions(Before) \cup {C2_NewPos}
  /\ NodeAt(After, C2_NewPos).id = last.newId
  /\ NodeAt(After, C2_NewPos).completed = FALSE
  /\ NodeAt(After, C2_NewPos).children = <<>>
  /\ getTaskByPath(State, db, last.projectId, Append(last.path, last.newId), OkAll).ret
       = <<NodeAt(After, C2_NewPos)>>
  /\ \A pos \in Positions(Before) :
       IF IsPrefix(pos, C2_ParentPos)
         THEN \A k \in DOMAIN NodeAt(Before, pos) \ {"children"} :
                NodeAt(After, pos)[k] = NodeAt(Before, pos)[k]
         ELSE NodeAt(After, pos) = NodeAt(Before, pos)

\* C2 as stated: the inserted node holds every field of taskData as supplied.
C2_FieldsAsSupplied ==
  C2_Case =>
    /\ C2_Inserted
    /\ \A k \in DOMAIN last.data :
         Has(NodeAt(After, C2_NewPos), k) /\ NodeAt(After, C2_NewPos)[k] = last.data[k]

\* C2 amended: insert-then-resolve holds, and the inserted node holds the
\* supplied name, description, hours, costPerHour and assignedTo as given, the
\* supplied deadline unless it is the empty string (stored as null), the
\* default of every field not supplied, and no projectId.
C2_InsertThenResolve ==
  C2_Case =>
    /\ C2_Inserted
    /\ LET new == NodeAt(After, C2_NewPos)
           data == last.data
       IN /\ new.name = (IF Has(data, "name") THEN data.name ELSE "")
          /\ new.description = (IF Has(data, "description") THEN data.description ELSE "")
          /\ new.hours = (IF Has(data, "hours") THEN data.hours ELSE 0)
          /\ new.costPerHour = (IF Has(data, "costPerHour") THEN data.costPerHour ELSE 0)
          /\ new.assignedTo = (IF Has(data, "assignedTo") THEN data.assignedTo ELSE <<>>)
          /\ new.deadline = (IF Has(data, "deadline") /\ data.deadline # ""
                               THEN data.deadline ELSE Null)
          /\ ~Has(new, "projectId")

\* A node with a deadline was added as the second child of a node two levels deep
C2_Witness ==
  /\ C2_Case
  /\ Len(last.path) = 2
  /\ C2_NewPos[3] = 2
  /\ Has(last.data, "deadline") /\ last.data.deadline = "d1"

\* ------------------------------------------------------------------ C3
\* The call that just ended was a tree edit whose path or target does not
\* resolve in the project's tree
C3_Unresolved ==
  /\ OnProject
  /\ \/ last.op = "addTask" /\ last.path # <<>> /\ PathPos(Before, last.path) = {}
     \/ last.op \in {"updateTask", "deleteTask"} /\ last.taskId \notin IdsIn(Before)
     \/ last.op = "toggleTaskCompletion"
          /\ (last.path = <<>> \/ PathPos(Before, last.path) = {})

\* C3: a tree edit on a path or target that does not resolve rejects with an
\* error, creates no node and writes nothing to the document store.
C3_NodeNotFound ==
  C3_Unresolved =>
    /\ last.out = "rejected"
    /\ last.writes = 0
    /\ db = last.before

\* ------------------------------------------------------------------ C4
RECURSIVE RemoveAt(_, _)
\* tasks without the node at pos and everything below it
RemoveAt(tasks, pos) ==
  IF Len(pos) = 1
    THEN SubSeq(tasks, 1, pos[1] - 1) \o SubSeq(tasks, pos[1] + 1, Len(tasks))
    ELSE [tasks EXCEPT ![pos[1]].children = RemoveAt(@, Tail(pos))]

\* The positions of the nodes with the id the call named
TargetPos == {pos \in Positions(Before) : NodeAt(Before, pos).id = last.taskId}

C4_Case == Edited("deleteTask") /\ UniqueIds(Before) /\ TargetPos # {}

\* C4: deleteTask of an id present in a tree of unique ids persists the tree
\* without the subtree rooted at that id; every other node keeps its fields,
\* its place and its remaining children in their order.
C4_DeleteSubtree ==
  C4_Case => \A pos \in TargetPos : After = RemoveAt(Before, pos)

\* A node below the root that has a child of its own was deleted with its subtree
C4_Witness ==
  /\ C4_Case
  /\ \E pos \in TargetPos : Len(pos) = 2 /\ NodeAt(Before, pos).children # <<>>
  /\ NodeCount(After) = NodeCount(Before) - 2

\* ------------------------------------------------------------------ C5
C5_Case == last.op = "deleteTask" /\ OnProject /\ TargetPos = {}

\* C5: deleteTask of an id that occurs nowhere in the tree does not reject,
\* throws nothing and leaves the store as it was; after any deleteTask, deleting the
\* same id again ends without an error and changes nothing.
C5_DeleteAbsent ==
  /\ C5_Case => last.out = "ok" /\ last.msg = Null /\ db = last.before
  /\ Edited("deleteTask") =>
       /\ deleteTask(State, db, last.projectId, last.path, last.taskId, currentUser, OkAll).out = "ok"
       /\ deleteTask(State, db, last.projectId, last.path, last.taskId, currentUser, OkAll).D = db

\* An absent id was deleted from a tree with nested nodes, and the tree was written back
C5_Witness ==
  /\ C5_Case
  /\ \E pos \in Positions(Before) : Len(pos) = 3
  /\ last.writes = 1

\* ------------------------------------------------------------------ C6
\* The position of the node the call's path names (<<>> for an empty path)
C6_ParentPos == IF last.path = <<>> THEN {<<>>} ELSE PathPos(Before, last.path)

\* The nodes with the call's id that are children of the node at path
C6_Scoped == {pos \in TargetPos : SubSeq(pos, 1, Len(pos) - 1) \in C6_ParentPos}

\* The nodes with the call's id that are neither those nor below one of those
C6_Elsewhere == {pos \in TargetPos : \A q \in C6_Scoped : ~IsPrefix(q, pos)}

\* C6: when the given id names a child of the node at path and also a node in
\* another branch, deleteTask removes only the child of the node at path: the
\* nodes with that id in other branches stay in the tree.
C6_ScopedDelete ==
  (Edited("deleteTask") /\ C6_Scoped # {} /\ C6_Elsewhere # {}) =>
    Cardinality({pos \in Positions(After) : NodeAt(After, pos).id = last.taskId})
      = Cardinality(C6_Elsewhere)

\* ------------------------------------------------------------------ C7
C7_Case == Edited("updateTask") /\ UniqueIds(Before) /\ TargetPos # {}

\* C7: updateTask on a node of a tree of unique ids leaves the shape of the
\* tree as it was, sets completed when the patch carries it, keeps every
\* field of the node the patch does not carry (children included), and keeps
\* every field of every other node.
C7_PatchPreserves ==
  C7_Case =>
    /\ Positions(After) = Positions(Before)
    /\ \A pos \in Positions(Before) :
         /\ DOMAIN NodeAt(After, pos) = DOMAIN NodeAt(Before, pos)
         /\ IF pos \in TargetPos
              THEN /\ Has(last.data, "completed") =>
                        NodeAt(After, pos).completed = last.data.completed
                   /\ \A k \in DOMAIN NodeAt(Before, pos) \ DOMAIN last.data :
                        NodeAt(After, pos)[k] = NodeAt(Before, pos)[k]
              ELSE \A k \in DOMAIN NodeAt(Before, pos) \ {"children"} :
                     NodeAt(After, pos)[k] = NodeAt(Before, pos)[k]

\* A node below the root with a child, hours and a deadline was patched with
\* { completed: true } only
C7_Witness ==
  /\ C7_Case
  /\ last.data = [completed |-> TRUE]
  /\ \E pos \in TargetPos :
       /\ Len(pos) >= 2
       /\ ~NodeAt(Before, pos).completed /\ NodeAt(After, pos).completed
       /\ NodeAt(Before, pos).deadline # Null

\* ------------------------------------------------------------------ C8
\* C8: after the tree-edit helper of addTask, updateTask or deleteTask has
\* returned, the fetched tree it was handed equals what was fetched.
C8_InputNotMutated ==
  (last.op \in {"addTask", "updateTask", "deleteTask"} /\ OnProject) =>
    last.inputAfter = last.fetched

\* ----------------------------------------------------------------- C10
\* p comes before q depth-first: p is above q, or p turns to an earlier sibling
\* where the two part
C10_Earlier(p, q) ==
  \/ Len(p) < Len(q) /\ SubSeq(q, 1, Len(p)) = p
  \/ \E k \in 1..Len(p) :
       /\ k <= Len(q)
       /\ SubSeq(p, 1, k - 1) = SubSeq(q, 1, k - 1)
       /\ p[k] < q[k]

RECURSIVE C10_InOrder(_)
C10_InOrder(ps) ==
  IF ps = {} THEN <<>>
  ELSE LET first == CHOOSE p \in ps : \A q \in ps \ {p} : C10_Earlier(p, q)
       IN <<first>> \o C10_InOrder(ps \ {first})

\* The positions of the nodes of a tree that list uid in assignedTo
C10_Assigned(tasks, uid) ==
  {pos \in Positions(tasks) :
     \E i \in DOMAIN NodeAt(tasks, pos).assignedTo : NodeAt(tasks, pos).assignedTo[i].id = uid}

C10_Annotated(task, projectId) ==
  [k \in DOMAIN task \cup {"projectId"} |-> IF k = "projectId" THEN projectId ELSE task[k]]

\* The assigned nodes of one project, depth-first, with the project's id
C10_OfProject(D, projectId, uid) ==
  IF projectId \notin DOMAIN D THEN <<>>
  ELSE [i \in 1..Cardinality(C10_Assigned(D[projectId].tasks, uid)) |->
          C10_Annotated(NodeAt(D[projectId].tasks,
                               C10_InOrder(C10_Assigned(D[projectId].tasks, uid))[i]),
                        projectId)]

C10_Case == last.op = "fetchUserTasks" /\ currentUser # Null

\* C10: fetchUserTasks with a signed-in user sets userTasks to the nodes that
\* list the user in assignedTo, each once and with the id of its project,
\* project by project in the order of the store's list and within a project
\* depth-first, a parent before its children and siblings in list order.
C10_UserTasks ==
  C10_Case =>
    /\ last.out = "ok"
    /\ userTasks = C10_OfProject(db, ProjOrder[1], currentUser)
                     \o C10_OfProject(db, ProjOrder[2], currentUser)

\* Tasks of two projects were collected, one of them below a parent that is
\* not assigned and followed by that parent's later sibling
C10_Witness ==
  /\ C10_Case
  /\ Len(userTasks) = 3
  /\ userTasks[1].projectId = "p1" /\ userTasks[2].projectId = "p2"
  /\ userTasks[2].id = "b" /\ userTasks[3].id = "c"

\* ------------------------------------------------------------------ C9
\* The second specification: updateProject on raw trees, read back by
\* fetchProject and written again as read.
\* The optional keys of a raw node; description goes with name and
\* costPerHour with hours
OptKeys == {"name", "hours", "assignedTo", "deadline", "completed", "children", "projectId"}

RawKeys(K) ==
  {"id"} \cup K \cup (IF "name" \in K THEN {"description"} ELSE {})
         \cup (IF "hours" \in K THEN {"costPerHour"} ELSE {})

\* A node with the keys K set: to the falsy value of each when v = 1, to a
\* truthy one when v = 2
RawNode(id, K, v, kids) ==
  [k \in RawKeys(K) |->
     CASE k = "id" -> id
       [] k = "name" -> IF v = 1 THEN "" ELSE "N"
       [] k = "description" -> IF v = 1 THEN "" ELSE "dx"
       [] k = "hours" -> IF v = 1 THEN 0 ELSE 5
       [] k = "costPerHour" -> IF v = 1 THEN 0 ELSE 7
       [] k = "assignedTo" -> IF v = 1 THEN <<>> ELSE <<U1>>
       [] k = "deadline" -> IF v = 1 THEN "" ELSE "d1"
       [] k = "completed" -> (v = 2)
       [] k = "projectId" -> "p9"
       [] k = "children" -> kids]

RawTrees ==
  {<<RawNode("a", K, v,
             IF v = 1 THEN <<>>
             ELSE <<RawNode("b", K \ {"children"}, 1, <<>>),
                    RawNode("c", K \ {"children"}, 2, <<>>)>>)>> :
     K \in SUBSET OptKeys, v \in {1, 2}}

InitNormalise == Init /\ "p1" \in DOMAIN db

NormaliseProject ==
  /\ calls < MaxNormalise
  /\ \E id \in DOMAIN db, tasks \in RawTrees :
       \E r \in {updateProject(State, db, id, [name |-> "P", tasks |-> tasks], OkAll)} :
         Commit(r, Call("updateProject", id, <<>>, "", [name |-> "P", tasks |-> tasks], "", r))

\* updateProject(projectId, { ...project }) on the project fetchProject returned
Renormalise ==
  /\ MayCall
  /\ last.op = "fetchProject" /\ last.ret # <<>>
  /\ \E r \in {updateProject(State, db, last.projectId, last.ret[1], OkAll)} :
       Commit(r, Call("updateProject", last.projectId, <<>>, "", last.ret[1], "", r))

NextNormalise == NormaliseProject \/ FetchProject(Reliable) \/ Renormalise

SpecNormalise == InitNormalise /\ [][NextNormalise]_vars

StoredKeys ==
  {"id", "name", "description", "hours", "costPerHour", "assignedTo", "deadline",
   "completed", "children"}

C9_Default ==
  [name |-> "", description |-> "", hours |-> 0, costPerHour |-> 0, assignedTo |-> <<>>,
   deadline |-> Null, completed |-> FALSE]

RECURSIVE C9_Agree(_, _, _)
\* clean is raw with the same nodes in the same places, each with the stored
\* keys and no other, the value raw defines for a key and the default for a
\* key raw leaves unset; with emptyIsUnset an empty-string deadline counts as unset
C9_Agree(raw, clean, emptyIsUnset) ==
  /\ Len(clean) = Len(raw)
  /\ \A i \in 1..Len(raw) :
       /\ DOMAIN clean[i] = StoredKeys
       /\ clean[i].id = raw[i].id
       /\ \A k \in DOMAIN C9_Default :
            clean[i][k] =
              IF Has(raw[i], k) /\ ~(emptyIsUnset /\ k = "deadline" /\ raw[i][k] = "")
                THEN raw[i][k] ELSE C9_Default[k]
       /\ C9_Agree(IF Has(raw[i], "children") THEN raw[i].children ELSE <<>>,
                   clean[i].children, emptyIsUnset)

C9_Case == Edited("updateProject") /\ Has(last.data, "tasks")

\* C9 as stated: the tree updateProject writes has the nodes of the tree it
\* was given in the same places with the same ids, every value the given tree
\* defines, the default of every field it leaves unset and no projectId;
\* normalising the written tree again changes nothing.
C9_DefinedValuesKept ==
  C9_Case =>
    /\ C9_Agree(last.data.tasks, After, FALSE)
    /\ cleanTasks(After) = After

\* C9 amended: as stated, except that a deadline given as the empty string is
\* stored as null like an unset one; what fetchProject reads back is the
\* written tree, and writing back what was read changes nothing.
C9_RoundTrip ==
  /\ C9_Case =>
       /\ C9_Agree(last.data.tasks, After, TRUE)
       /\ cleanTasks(After) = After
       /\ fetchProject(State, db, last.projectId, OkAll).ret[1].tasks = After
       /\ updateProject(State, db, last.projectId,
                        fetchProject(State, db, last.projectId, OkAll).ret[1], OkAll).D = db
  /\ (C9_Case /\ last.data.tasks = Before) => db = last.before

\* A tree of three nodes was written whose root sets no hours and no deadline
\* but a projectId, and whose first child has an empty-string deadline
C9_Witness ==
  /\ C9_Case
  /\ Len(last.data.tasks) = 1
  /\ ~Has(last.data.tasks[1], "hours") /\ Has(last.data.tasks[1], "projectId")
  /\ Has(last.data.tasks[1], "children") /\ Len(last.data.tasks[1].children) = 2
  /\ ~Has(last.data.tasks[1].children[1], "completed")
  /\ Has(last.data.tasks[1].children[1], "name")
  /\ Len(After[1].children) = 2

\* ----------------------------------------------------------------- C11
RECURSIVE ReplaceAt(_, _, _)
\* tasks with node in the place of the node at pos
ReplaceAt(tasks, pos, node) ==
  IF Len(pos) = 1 THEN [tasks EXCEPT ![pos[1]] = node]
  ELSE [tasks EXCEPT ![pos[1]].children = ReplaceAt(@, Tail(pos), node)]

C11_Resolves == OnProject /\ last.path # <<>> /\ PathPos(Before, last.path) # {}

\* C11: toggleTaskCompletion on a path that resolves to a node persists the
\* tree with that node's completed negated and nothing else changed, and a
\* second toggle of the same path restores the tree; on an empty path, a path
\* that does not resolve or a missing project it rejects with 'Task not
\* found' and writes nothing.
C11_Toggle ==
  last.op = "toggleTaskCompletion" =>
    IF C11_Resolves
      THEN /\ last.out = "ok"
           /\ \A pos \in PathPos(Before, last.path) :
                After = ReplaceAt(Before, pos,
                                  [NodeAt(Before, pos) EXCEPT !.completed = ~@])
           /\ toggleTaskCompletion(State, db, last.projectId, last.path, currentUser,
                                   OkAll).D = last.before
      ELSE /\ last.out = "rejected" /\ last.msg = MsgNoTask
           /\ last.writes = 0
           /\ db = last.before

\* ----------------------------------------------------------------- C14
\* C14: a tree edit (addTask, updateTask, deleteTask, toggleTaskCompletion,
\* with any arguments and a fresh id for the new node) on a tree of pairwise
\* distinct ids persists a tree of pairwise distinct ids.
C14_UniqueIds ==
  (/\ last.op \in {"addTask", "updateTask", "deleteTask", "toggleTaskCompletion"}
   /\ OnProject
   /\ UniqueIds(Before))
    => UniqueIds(db[last.projectId].tasks)

\* ------------------------------------------------------ failing store calls
\* The third specification: a first call on a reliable store that loads a
\* cache (fetchProjects, fetchUserTasks, createProject), then calls during
\* which one kind of store call may be rejected.
Loading == IF calls = 0 THEN Reliable ELSE Faulty
Later == IF calls = 0 THEN {} ELSE Faulty

NextFaulty ==
  \/ FetchProjects(Loading)
  \/ FetchUserTasks(Loading)
  \/ CreateProject(Loading)
  \/ FetchProject(Later)
  \/ UpdateProject(Later)
  \/ DeleteProject(Later)
  \/ GetTaskByPath(Later)
  \/ AddTask(Later)
  \/ UpdateTask(Later)
  \/ DeleteTask(Later)
  \/ ToggleTaskCompletion(Later)

SpecFaulty == Init /\ [][NextFaulty]_vars

\* ----------------------------------------------------------------- C12
\* The message of the store call of the last call that was rejected, Null when
\* none was: the write of createProject / updateProject / deleteProject, the
\* getDoc of addTask / updateTask / deleteTask or, when that found the
\* project, their updateDoc
C12_Rejection ==
  IF last.op \in {"createProject", "deleteProject"}
    THEN IF last.ok.write THEN Null ELSE MsgStore
  ELSE IF last.op = "updateProject"
    THEN IF ~last.ok.write THEN MsgStore
         ELSE IF OnProject THEN Null ELSE MsgNoDoc
  ELSE IF last.op \in {"addTask", "updateTask", "deleteTask"}
    THEN IF ~last.ok.read THEN MsgStore
         ELSE IF OnProject /\ ~last.ok.write THEN MsgStore
         ELSE Null
  ELSE Null

\* C12: a mutating operation whose store call is rejected rejects to its
\* caller, leaves the store's failure message in error and loading false, and
\* leaves the collection and the projects cache as they were.
C12_FailureSurfaced ==
  C12_Rejection # Null =>
    /\ last.out = "rejected"
    /\ error = C12_Rejection
    /\ loading = FALSE
    /\ db = last.before
    /\ projects = last.prior.projects

\* ----------------------------------------------------------------- C13
\* The message of the failure of the last call when it was a read that
\* failed, Null otherwise
C13_Failure ==
  IF last.op \in {"fetchProject", "getTaskByPath"} /\ ~last.ok.read THEN MsgStore
  ELSE IF last.op = "fetchProjects" /\ ~last.ok.list THEN MsgStore
  ELSE IF last.op = "fetchUserTasks" /\ currentUser = Null THEN MsgNoUser
  ELSE IF last.op = "fetchUserTasks" /\ ~last.ok.list THEN MsgStore
  ELSE Null

\* C13: fetchProjects, fetchProject, getTaskByPath and fetchUserTasks never
\* reject; when the read fails, or fetchUserTasks finds no signed-in user,
\* the call returns null or nothing, error holds the failure message, loading
\* is false and the projects and userTasks caches are as before; with no
\* signed-in user the outcome is the same whether or not the store answers.
C13_ReadsDegrade ==
  last.op \in {"fetchProjects", "fetchProject", "getTaskByPath", "fetchUserTasks"} =>
    /\ last.out = "ok"
    /\ C13_Failure # Null =>
         /\ last.ret = <<>>
         /\ error = C13_Failure
         /\ loading = FALSE
         /\ projects = last.prior.projects
         /\ userTasks = last.prior.userTasks
         /\ db = last.before
    /\ (last.op = "fetchUserTasks" /\ currentUser = Null) =>
         \A ok \in Faulty : fetchUserTasks(last.prior, last.before, Null, ok).S = State

\* getDocs was rejected during a fetchProjects while the cache held projects
C13_Witness ==
  /\ last.op = "fetchProjects" /\ ~last.ok.list
  /\ last.prior.projects # <<>>
  /\ error = MsgStore

\* ----------------------------------------------------------------- C16
\* deleteTask, or updateTask with completed or assignedTo in its data, wrote
\* the document and its fetchUserTasks then failed
C16_Case ==
  /\ \/ last.op = "deleteTask"
     \/ last.op = "updateTask" /\ (Has(last.data, "completed") \/ Has(last.data, "assignedTo"))
  /\ last.writes = 1
  /\ currentUser = Null \/ ~last.ok.list

\* C16: when the fetchUserTasks that follows the write of deleteTask or
\* updateTask fails, the call resolves, the collection holds what the call
\* leaves on a reliable store, the cached project has the written tree, error
\* holds the failure message and userTasks is as before.
C16_SoftRefreshFailure ==
  C16_Case =>
    /\ last.out = "ok"
    /\ db = (IF last.op = "deleteTask"
               THEN deleteTask(last.prior, last.before, last.projectId, last.path,
                               last.taskId, "u1", OkAll).D
               ELSE updateTask(last.prior, last.before, last.projectId, last.path,
                               last.taskId, last.data, "u1", OkAll).D)
    /\ \A i \in 1..Len(projects) :
         projects[i].id = last.projectId => projects[i].tasks = db[last.projectId].tasks
    /\ error = (IF currentUser = Null THEN MsgNoUser ELSE MsgStore)
    /\ loading = FALSE
    /\ userTasks = last.prior.userTasks

\* A signed-in user's deleteTask removed a node of a cached project and the
\* getDocs of the refresh was rejected
C16_Witness ==
  /\ C16_Case
  /\ last.op = "deleteTask" /\ currentUser # Null
  /\ db # last.before
  /\ \E i \in 1..Len(projects) : projects[i].id = last.projectId

\* ----------------------------------------------------- overlapping calls
\* The fourth specification: calls that overlap. A handler runs from one
\* await to the next without interruption; the store serves a pending store
\* call at any later moment, and the handler resumes at any moment after
\* that. The source orders neither the serving of the pending store calls of
\* different handlers nor the resumption of the handlers. Every store call
\* succeeds.
MaxOverlap == 2

Slots == 1..MaxOverlap

\* crypto.randomUUID() of the addTask in slot s
RaceNewIds == <<"d", "e", "f">>

RaceDbs == {[p \in {"p1"} |-> Doc(RawWide)], [p \in {"p1"} |-> Doc(RawChain)]}

RaceEdits == {"addTask", "updateTask", "deleteTask"}

\* A call that has started: its arguments, the store call it waits for (pc),
\* what fetchProject returned (snap), the cleanProjectData handed to updateDoc
\* (pending), what getDocs returned (list); sawWrites and overWrites are the
\* slots whose updateDoc had landed when its getDoc was served and when its
\* own updateDoc landed, overwrote the tree its updateDoc replaced
Started(op, projectId, path, taskId, data, newId, pc) ==
  [op |-> op, projectId |-> projectId, path |-> path, taskId |-> taskId, data |-> data,
   newId |-> newId, pc |-> pc, snap |-> <<>>, pending |-> <<>>, list |-> <<>>,
   sawWrites |-> {}, overWrites |-> {}, overwrote |-> <<>>, out |-> "pending"]

Free(s) == s \notin DOMAIN inflight /\ (s = 1 \/ s - 1 \in DOMAIN inflight)

Waiting(s, pc) == s \in DOMAIN inflight /\ inflight[s].pc = pc

\* The slots whose updateDoc has landed
LandedSlots == {s \in DOMAIN inflight : inflight[s].overwrote # <<>>}

\* updatedTasks of the edit c on the tasks of the project it fetched
RaceEdit(c, tasks) ==
  IF c.op = "addTask" THEN AddedTasks(tasks, c.path, NewTask(c.data, c.newId))
  ELSE IF c.op = "updateTask" THEN updateNestedTask(tasks, c.taskId, c.data)
  ELSE deleteNestedTask(tasks, c.taskId)

\* The document after an updateDoc that merges the tasks edited on the stored
\* tree instead of writing the tree computed from the fetched project
LandedOnStored(c, D) ==
  IF c.op \in RaceEdits
    THEN Spread(D[c.projectId],
                CleanProjectData([name |-> c.pending.name,
                                  tasks |-> RaceEdit(c, D[c.projectId].tasks)]))
    ELSE Spread(D[c.projectId], c.pending)

\* The document after updateDoc(docRef, cleanProjectData)
Landed(c, D) == Spread(D[c.projectId], c.pending)

\* if (data.completed !== undefined || data.assignedTo !== undefined), or deleteTask
Refreshes(c) ==
  \/ c.op = "deleteTask"
  \/ c.op = "updateTask" /\ (Has(c.data, "completed") \/ Has(c.data, "assignedTo"))

Begun ==
  /\ loading' = TRUE
  /\ error' = Null
  /\ UNCHANGED <<projects, userTasks, db, currentUser, last, calls>>

Start(s, c) == Free(s) /\ inflight' = (s :> c) @@ inflight /\ Begun

\* The application before or after its first fetchProjects
InitRace ==
  /\ db \in RaceDbs
  /\ projects \in {<<>>, ListDocs(db)}
  /\ userTasks = <<>>
  /\ loading = FALSE
  /\ error = Null
  /\ currentUser \in {Null, "u1"}
  /\ last = NoCall
  /\ calls = 0
  /\ inflight = <<>>

\* The arguments of the overlapping calls
RaceTaskData == [name |-> "X", description |-> "dx"]

RacePatches == {[completed |-> TRUE], [name |-> "Z"]}

RaceProjectData == [name |-> "P", tasks |-> RawOne]

RacePaths == {<<>>, <<"a">>}

RaceTaskIds == {"a", "b"}

FetchProjectsStarted == Started("fetchProjects", "", <<>>, "", <<>>, "", "getDocs")

UpdateProjectStarted(id) ==
  [Started("updateProject", id, <<>>, "", <<>>, "", "updateDoc")
     EXCEPT !.pending = CleanProjectData(RaceProjectData)]

StartFetchProjects ==
  \E s \in Slots :
    \E c \in {FetchProjectsStarted} : Start(s, c)

StartUpdateProject ==
  \E s \in Slots, id \in DOMAIN db :
    \E c \in {UpdateProjectStarted(id)} : Start(s, c)

StartAddTask ==
  \E s \in Slots, projectId \in DOMAIN db, path \in RacePaths :
    \E c \in {Started("addTask", projectId, path, "", RaceTaskData, RaceNewIds[s], "getDoc")} :
      Start(s, c)

StartUpdateTask ==
  \E s \in Slots, projectId \in DOMAIN db, taskId \in RaceTaskIds, data \in RacePatches :
    \E c \in {Started("updateTask", projectId, <<>>, taskId, data, "", "getDoc")} :
      Start(s, c)

StartDeleteTask ==
  \E s \in Slots, projectId \in DOMAIN db, taskId \in RaceTaskIds :
    \E c \in {Started("deleteTask", projectId, <<>>, taskId, <<>>, "", "getDoc")} :
      Start(s, c)

\* The store serves the getDoc of fetchProject
ServeGetDoc ==
  \E s \in Slots :
    /\ Waiting(s, "getDoc")
    /\ inflight' = [inflight EXCEPT
                      ![s].snap = IF inflight[s].projectId \in DOMAIN db
                                    THEN <<ProjectOf(db, inflight[s].projectId)>> ELSE <<>>,
                      ![s].sawWrites = LandedSlots,
                      ![s].pc = "gotDoc"]
    /\ UNCHANGED <<projects, userTasks, loading, error, db, currentUser, last, calls>>

\* fetchProject returns; the handler computes updatedTasks and runs
\* updateProject up to its updateDoc, or throws 'Project not found'
ResumeGetDoc ==
  \E s \in Slots :
    /\ Waiting(s, "gotDoc")
    /\ IF inflight[s].snap = <<>>
         THEN /\ inflight' = [inflight EXCEPT ![s].pc = "done", ![s].out = "rejected"]
              /\ error' = MsgNoProject
              /\ loading' = FALSE
         ELSE /\ inflight' = [inflight EXCEPT
                                ![s].pending =
                                  CleanProjectData([inflight[s].snap[1] EXCEPT
                                    !.tasks = RaceEdit(inflight[s], inflight[s].snap[1].tasks)]),
                                ![s].pc = "updateDoc"]
              /\ error' = Null
              /\ loading' = TRUE
    /\ UNCHANGED <<projects, userTasks, db, currentUser, last, calls>>

\* The updateDoc of updateProject lands in the collection
LandUpdateDoc ==
  \E s \in Slots :
    /\ Waiting(s, "updateDoc")
    /\ inflight[s].projectId \in DOMAIN db
    /\ db' = [db EXCEPT ![inflight[s].projectId] = Landed(inflight[s], db)]
    /\ inflight' = [inflight EXCEPT
                      ![s].overWrites = LandedSlots,
                      ![s].overwrote = <<db[inflight[s].projectId].tasks>>,
                      ![s].pc = "updated"]
    /\ UNCHANGED <<projects, userTasks, loading, error, currentUser, last, calls>>

\* updateProject resumes after updateDoc and maps the cache; the handler
\* that called it ends, or starts fetchUserTasks
ResumeUpdateDoc ==
  \E s \in Slots :
    /\ Waiting(s, "updated")
    /\ projects' = UpdatedProjects(projects, inflight[s].projectId, inflight[s].pending)
    /\ IF ~Refreshes(inflight[s])
         THEN /\ inflight' = [inflight EXCEPT ![s].pc = "done", ![s].out = "ok"]
              /\ loading' = FALSE
              /\ UNCHANGED error
         ELSE IF currentUser = Null
           THEN /\ inflight' = [inflight EXCEPT ![s].pc = "done", ![s].out = "ok"]
                /\ loading' = FALSE
                /\ error' = MsgNoUser
           ELSE /\ inflight' = [inflight EXCEPT ![s].pc = "getDocs"]
                /\ loading' = TRUE
                /\ error' = Null
    /\ UNCHANGED <<userTasks, db, currentUser, last, calls>>

\* The store serves the getDocs of fetchProjects or fetchUserTasks
ServeGetDocs ==
  \E s \in Slots :
    /\ Waiting(s, "getDocs")
    /\ inflight' = [inflight EXCEPT ![s].list = ListDocs(db), ![s].pc = "gotDocs"]
    /\ UNCHANGED <<projects, userTasks, loading, error, db, currentUser, last, calls>>

\* fetchProjects sets the cache to the list it received; fetchUserTasks
\* sets userTasks from it
ResumeGetDocs ==
  \E s \in Slots :
    /\ Waiting(s, "gotDocs")
    /\ inflight' = [inflight EXCEPT ![s].pc = "done", ![s].out = "ok"]
    /\ IF inflight[s].op = "fetchProjects"
         THEN projects' = inflight[s].list /\ UNCHANGED userTasks
         ELSE /\ userTasks' = ProjectsFold(inflight[s].list, 1, <<>>, currentUser)
              /\ UNCHANGED projects
    /\ loading' = FALSE
    /\ UNCHANGED <<error, db, currentUser, last, calls>>

NextRace ==
  \/ StartFetchProjects
  \/ StartUpdateProject
  \/ StartAddTask
  \/ StartUpdateTask
  \/ StartDeleteTask
  \/ ServeGetDoc
  \/ ResumeGetDoc
  \/ LandUpdateDoc
  \/ ResumeUpdateDoc
  \/ ServeGetDocs
  \/ ResumeGetDocs

SpecRace == InitRace /\ [][NextRace]_vars

\* No call is in flight
Quiescent == \A s \in DOMAIN inflight : inflight[s].pc = "done"

\* ----------------------------------------------------------------- C15
\* Two tree edits of the same project that have both ended, b's updateDoc
\* having landed last of all
C15_Pair(a, b) ==
  /\ a \in DOMAIN inflight /\ b \in DOMAIN inflight /\ a # b
  /\ inflight[a].op \in RaceEdits /\ inflight[b].op \in RaceEdits
  /\ inflight[a].projectId = inflight[b].projectId
  /\ inflight[a].pc = "done" /\ inflight[b].pc = "done"
  /\ a \in inflight[b].overWrites
  /\ \A s \in LandedSlots : b \notin inflight[s].overWrites

\* b's getDoc was served before a's updateDoc landed
C15_Races(a, b) == C15_Pair(a, b) /\ a \notin inflight[b].sawWrites

\* b's getDoc was served after a's updateDoc had landed, and a's is the
\* only updateDoc b's getDoc saw
C15_Follows(a, b) == C15_Pair(a, b) /\ inflight[b].sawWrites = {a}

\* C15: when edit b read the project before edit a's write landed and b's
\* write landed after a's, the stored tree is the normalised edit of b on
\* the tree b read, which is the tree a's write replaced when b read before
\* any write, and neither call rejects or leaves an error; when b read after
\* a's write landed, the stored tree is b's edit on the tree a wrote, which
\* is a's edit on the tree a read.
C15_LastWriterWins ==
  \A a \in Slots, b \in Slots :
    /\ C15_Races(a, b) =>
         /\ db[inflight[b].projectId].tasks =
              cleanTasks(RaceEdit(inflight[b], inflight[b].snap[1].tasks))
         /\ (inflight[b].sawWrites = {} /\ inflight[a].overWrites = {}) =>
              inflight[b].snap[1].tasks = inflight[a].overwrote[1]
         /\ inflight[a].out = "ok" /\ inflight[b].out = "ok"
         /\ (Quiescent /\ currentUser # Null) => error = Null
    /\ C15_Follows(a, b) =>
         /\ db[inflight[b].projectId].tasks =
              cleanTasks(RaceEdit(inflight[b],
                cleanTasks(RaceEdit(inflight[a], inflight[a].snap[1].tasks))))
         /\ inflight[a].out = "ok" /\ inflight[b].out = "ok"

\* An addTask was overwritten by a deleteTask that had read before it wrote:
\* the added node is not in the stored tree
C15_Witness ==
  \E a \in Slots, b \in Slots :
    /\ C15_Races(a, b)
    /\ inflight[a].op = "addTask" /\ inflight[b].op = "deleteTask"
    /\ inflight[a].newId \notin IdsIn(db[inflight[b].projectId].tasks)
    /\ inflight[a].newId \in IdsIn(inflight[a].pending.tasks)

\* ----------------------------------------------------------------- C17
\* C17: when no call is in flight, every project of the projects cache that
\* exists in the collection has the tasks of its stored document.
C17_CacheCoherent ==
  Quiescent =>
    \A i \in 1..Len(projects) :
      projects[i].id \in DOMAIN db => projects[i].tasks = db[projects[i].id].tasks

====
